---------------------------- MODULE Spec2Model ----------------------------
(***************************************************************************)
(* A model of the QTree class of pa3/qtree.cpp: a region quadtree built    *)
(* from a PNG, with Render, Prune, FlipHorizontal, RotateCCW and the       *)
(* copy-assignment operator.  Nodes live on a heap (a function from        *)
(* addresses to node records); a QTree object holds the root pointer and   *)
(* the stored width and height.                                            *)
(***************************************************************************)
EXTENDS Integers, Sequences, FiniteSets, TLC

\* Bounds of the model.
MaxW == 3
MaxH == 3
MaxArea == 9
MaxScale == 2
MaxCopyArea == 3
MaxAssign == 1

\* nullptr
NULL == 0

\* RGBAPixel values (alpha is not used by the tree).
RGB(r, g, b) == [r |-> r, g |-> g, b |-> b]
Red == RGB(255, 0, 0)
Green == RGB(0, 255, 0)
Blue == RGB(0, 0, 255)
Yellow == RGB(255, 255, 0)
\* RGBAPixel(): the colour of a pixel nothing has been written to.
DefaultPixel == RGB(255, 255, 255)

\* The colours the source images are drawn from.
Palette == {Red, Blue}
\* The tolerances Prune is called with.
Tolerances == {0, 150, 250}

Rect(w, h) == (0 .. w - 1) \X (0 .. h - 1)

\* A PNG of width w and height h with pixel function f.
PNG(w, h, f) == [width |-> w, height |-> h, px |-> f]

\* The 2x2 image of the documented scenario, row-major NW, NE, SW, SE.
ExampleImg ==
  PNG(2, 2, [p \in Rect(2, 2) |->
               IF p = <<0, 0>> THEN Red
               ELSE IF p = <<1, 0>> THEN Green
               ELSE IF p = <<0, 1>> THEN Blue
               ELSE Yellow])

ImagesUpTo(area) ==
  UNION { { PNG(w, h, f) : f \in [Rect(w, h) -> Palette] } :
            <<w, h>> \in { s \in (1 .. MaxW) \X (1 .. MaxH) : s[1] * s[2] <= area } }

Images == ImagesUpTo(MaxArea) \cup {ExampleImg}

VARIABLES
  img,     \* the PNG the trees were constructed from
  heap,    \* allocated and not yet deleted nodes: address -> Node
  next,    \* the address the next `new Node` returns
  trees,   \* the QTree objects: name -> [root, width, height]
  pruned,  \* name -> whether the tree was pruned or copied from a pruned tree
  last,    \* the last operation: <<name of operation, tree>>
  assigns  \* number of copy-assignments executed

vars == <<img, heap, next, trees, pruned, last, assigns>>

----------------------------------------------------------------------------
\* Node and its geometry

Node(ul, lr, a) ==
  [upLeft |-> ul, lowRight |-> lr, avg |-> a,
   NW |-> NULL, NE |-> NULL, SW |-> NULL, SE |-> NULL]

\* the test `NW == nullptr && NE == nullptr && SW == nullptr && SE == nullptr`
isLeaf(n) == n.NW = NULL /\ n.NE = NULL /\ n.SW = NULL /\ n.SE = NULL

\* lowRight.first - upLeft.first + 1, lowRight.second - upLeft.second + 1
widthOf(n) == n.lowRight[1] - n.upLeft[1] + 1
heightOf(n) == n.lowRight[2] - n.upLeft[2] + 1
areaOf(n) == heightOf(n) * widthOf(n)

\* `new Node(...)` at address p
New(h, p, n) == h @@ (p :> n)
\* `delete` of the node at address p
Delete(h, p) == [q \in DOMAIN h \ {p} |-> h[q]]

----------------------------------------------------------------------------
\* Construction

\* a faulty variant: the extra line of an odd split goes to the right/lower half
halfFloor(x) == IF x = 1 THEN 1 ELSE x \div 2

\* ceil(x/2.0)
half(x) == (x + 1) \div 2

\* an unsigned char channel
Channel(v) == v % 256

\* a faulty variant: the plain mean of the children's averages, not area-weighted
assignColorUnweighted(h, p, mode) ==
  LET n == h[p]
      kids == IF mode = "v" THEN <<n.NW, n.SW>>
              ELSE IF mode = "h" THEN <<n.NW, n.NE>>
              ELSE <<n.NW, n.NE, n.SW, n.SE>>
      Sum(c) == IF Len(kids) = 2 THEN h[kids[1]].avg[c] + h[kids[2]].avg[c]
                ELSE h[kids[1]].avg[c] + h[kids[2]].avg[c]
                     + h[kids[3]].avg[c] + h[kids[4]].avg[c]
  IN [h EXCEPT ![p].avg = RGB(Channel(Sum("r") \div Len(kids)),
                              Channel(Sum("g") \div Len(kids)),
                              Channel(Sum("b") \div Len(kids)))]

assignColor(h, p, mode) ==
  LET n == h[p]
      nwArea == IF mode \in {"v", "h", "else"} THEN areaOf(h[n.NW]) ELSE 0
      neArea == IF mode \in {"h", "else"} THEN areaOf(h[n.NE]) ELSE 0
      swArea == IF mode \in {"v", "else"} THEN areaOf(h[n.SW]) ELSE 0
      seArea == IF mode = "else" THEN areaOf(h[n.SE]) ELSE 0
      totalArea == nwArea + neArea + swArea + seArea
      Mix(c) ==
        IF mode = "v"
          THEN (nwArea * h[n.NW].avg[c] + swArea * h[n.SW].avg[c]) \div totalArea
        ELSE IF mode = "h"
          THEN (nwArea * h[n.NW].avg[c] + neArea * h[n.NE].avg[c]) \div totalArea
        ELSE (nwArea * h[n.NW].avg[c] + neArea * h[n.NE].avg[c]
              + swArea * h[n.SW].avg[c] + seArea * h[n.SE].avg[c]) \div totalArea
  IN [h EXCEPT ![p].avg = RGB(Channel(Mix("r")), Channel(Mix("g")), Channel(Mix("b")))]

\* BuildNode returns the heap after the allocations, the next free address
\* and the pointer to the node built.
RECURSIVE BuildNode(_, _, _, _, _)
BuildNode(h, nx, im, ul, lr) ==
  LET subtree == nx
      h0 == New(h, subtree, Node(ul, lr, DefaultPixel))
      x == lr[1] - ul[1] + 1
      y == lr[2] - ul[2] + 1
      halfw == half(x)
      halfh == half(y)
  IN IF x = 1 /\ y = 1 THEN
       [heap |-> [h0 EXCEPT ![subtree].avg = im.px[ul]], next |-> nx + 1, ptr |-> subtree]
     ELSE IF x = 1 /\ y # 1 THEN
       LET nw == BuildNode(h0, nx + 1, im, ul, <<ul[1] + halfw - 1, ul[2] + halfh - 1>>)
           sw == BuildNode([nw.heap EXCEPT ![subtree].NW = nw.ptr], nw.next, im,
                           <<ul[1], ul[2] + halfh>>, <<ul[1] + halfw - 1, lr[2]>>)
           h1 == [sw.heap EXCEPT ![subtree].SW = sw.ptr]
       IN [heap |-> assignColor(h1, subtree, "v"), next |-> sw.next, ptr |-> subtree]
     ELSE IF y = 1 /\ x # 1 THEN
       LET nw == BuildNode(h0, nx + 1, im, ul, <<ul[1] + halfw - 1, ul[2] + halfh - 1>>)
           ne == BuildNode([nw.heap EXCEPT ![subtree].NW = nw.ptr], nw.next, im,
                           <<ul[1] + halfw, ul[2]>>, <<lr[1], ul[2] + halfh - 1>>)
           h1 == [ne.heap EXCEPT ![subtree].NE = ne.ptr]
       IN [heap |-> assignColor(h1, subtree, "h"), next |-> ne.next, ptr |-> subtree]
     ELSE
       LET nw == BuildNode(h0, nx + 1, im, ul, <<ul[1] + halfw - 1, ul[2] + halfh - 1>>)
           ne == BuildNode([nw.heap EXCEPT ![subtree].NW = nw.ptr], nw.next, im,
                           <<ul[1] + halfw, ul[2]>>, <<lr[1], ul[2] + halfh - 1>>)
           sw == BuildNode([ne.heap EXCEPT ![subtree].NE = ne.ptr], ne.next, im,
                           <<ul[1], ul[2] + halfh>>, <<ul[1] + halfw - 1, lr[2]>>)
           se == BuildNode([sw.heap EXCEPT ![subtree].SW = sw.ptr], sw.next, im,
                           <<ul[1] + halfw, ul[2] + halfh>>, lr)
           h1 == [se.heap EXCEPT ![subtree].SE = se.ptr]
       IN [heap |-> assignColor(h1, subtree, "else"), next |-> se.next, ptr |-> subtree]

\* QTree::QTree(const PNG& imIn): the heap, the next address and the object
Construct(h, nx, im) ==
  LET b == BuildNode(h, nx, im, <<0, 0>>, <<im.width - 1, im.height - 1>>)
  IN [heap |-> b.heap, next |-> b.next,
      tree |-> [root |-> b.ptr, width |-> im.width, height |-> im.height]]

EmptyHeap == [q \in {} |-> Node(<<0, 0>>, <<0, 0>>, DefaultPixel)]

----------------------------------------------------------------------------
\* Render

\* PNG img(w, h): every pixel default-constructed
BlankPNG(w, h) == PNG(w, h, [p \in Rect(w, h) |-> DefaultPixel])

\* Whether one call of RenderPixel writes pixel p for node n, before it recurses.
Painted(p, n, scale) ==
  IF scale = 1
    THEN /\ n.upLeft[1] <= p[1] /\ p[1] < n.upLeft[1] + widthOf(n)
         /\ n.upLeft[2] <= p[2] /\ p[2] < n.upLeft[2] + heightOf(n)
    ELSE /\ n.upLeft[1] * scale <= p[1] /\ p[1] < n.upLeft[1] * scale + scale
         /\ n.upLeft[2] * scale <= p[2] /\ p[2] < n.upLeft[2] * scale + scale

\* The pixel function px with the pixels RenderPixel writes for node n set to n.avg.
Paint(px, n, scale) ==
  LET S == { p \in DOMAIN px : Painted(p, n, scale) }
  IN [p \in S |-> n.avg] @@ px

RECURSIVE RenderPixel(_, _, _, _)
RenderPixel(h, canvas, node, scale) ==
  IF node = NULL THEN canvas
  ELSE
    LET n == h[node]
        c0 == [canvas EXCEPT !.px = Paint(canvas.px, n, scale)]
        c1 == RenderPixel(h, c0, n.NW, scale)
        c2 == RenderPixel(h, c1, n.NE, scale)
        c3 == RenderPixel(h, c2, n.SW, scale)
    IN RenderPixel(h, c3, n.SE, scale)

Render(h, t, scale) ==
  RenderPixel(h, BlankPNG(t.width * scale, t.height * scale), t.root, scale)

----------------------------------------------------------------------------
\* Prune

\* RGBAPixel::distanceTo, squared: the Euclidean distance in RGB space
distanceSq(c, d) ==
  (c.r - d.r) * (c.r - d.r) + (c.g - d.g) * (c.g - d.g) + (c.b - d.b) * (c.b - d.b)

\* subtree->avg.distanceTo(a) <= tolerance, for a tolerance >= 0
withinTolerance(c, a, tolerance) == distanceSq(c, a) <= tolerance * tolerance

RECURSIVE shouldPrune(_, _, _, _)

\* a faulty variant: the southern children are not looked at
shouldPruneNorthOnly(h, subtree, a, tolerance) ==
  IF subtree = NULL THEN TRUE
  ELSE IF isLeaf(h[subtree]) THEN withinTolerance(h[subtree].avg, a, tolerance)
  ELSE shouldPrune(h, h[subtree].NW, a, tolerance)
       /\ shouldPrune(h, h[subtree].NE, a, tolerance)

shouldPrune(h, subtree, a, tolerance) ==
  IF subtree = NULL THEN TRUE
  ELSE IF isLeaf(h[subtree]) THEN withinTolerance(h[subtree].avg, a, tolerance)
  ELSE shouldPrune(h, h[subtree].NW, a, tolerance)
       /\ shouldPrune(h, h[subtree].NE, a, tolerance)
       /\ shouldPrune(h, h[subtree].SW, a, tolerance)
       /\ shouldPrune(h, h[subtree].SE, a, tolerance)

\* `if (subtree->X != nullptr) { delete subtree->X; subtree->X = NULL; }`
deleteChild(h, subtree, X) ==
  IF h[subtree][X] # NULL
    THEN [Delete(h, h[subtree][X]) EXCEPT ![subtree][X] = NULL]
    ELSE h

RECURSIVE DeleteChildren(_, _)
DeleteChildren(h, subtree) ==
  IF subtree = NULL \/ isLeaf(h[subtree]) THEN h
  ELSE
    LET h1 == DeleteChildren(h, h[subtree].NW)
        h2 == DeleteChildren(h1, h1[subtree].NE)
        h3 == DeleteChildren(h2, h2[subtree].SW)
        h4 == DeleteChildren(h3, h3[subtree].SE)
    IN deleteChild(deleteChild(deleteChild(deleteChild(h4, subtree, "NW"),
                                           subtree, "NE"), subtree, "SW"), subtree, "SE")

RECURSIVE PruneNode(_, _, _)

\* a faulty variant: the test is repeated below a node that fails it only in NW
PruneNodeNWOnly(h, subtree, tolerance) ==
  IF subtree = NULL \/ isLeaf(h[subtree]) THEN h
  ELSE
    LET h0 == IF shouldPrune(h, subtree, h[subtree].avg, tolerance)
                THEN DeleteChildren(h, subtree) ELSE h
    IN PruneNode(h0, h0[subtree].NW, tolerance)

PruneNode(h, subtree, tolerance) ==
  IF subtree = NULL \/ isLeaf(h[subtree]) THEN h
  ELSE
    LET h0 == IF shouldPrune(h, subtree, h[subtree].avg, tolerance)
                THEN DeleteChildren(h, subtree) ELSE h
        h1 == PruneNode(h0, h0[subtree].NW, tolerance)
        h2 == PruneNode(h1, h1[subtree].NE, tolerance)
        h3 == PruneNode(h2, h2[subtree].SW, tolerance)
    IN PruneNode(h3, h3[subtree].SE, tolerance)

\* QTree::Prune: the heap and the object after the call
Prune(h, t, tolerance) == [heap |-> PruneNode(h, t.root, tolerance), tree |-> t]

----------------------------------------------------------------------------
\* FlipHorizontal

\* rewrites the rectangle of child X of subtree, when there is one
setRect(h, subtree, X, ul, lr) ==
  IF h[subtree][X] # NULL
    THEN [h EXCEPT ![h[subtree][X]].upLeft = ul, ![h[subtree][X]].lowRight = lr]
    ELSE h

\* a faulty variant: the western children keep their old right edge
positionNormalStaleWest(h, subtree, width1, height1) ==
  LET n == h[subtree]
      ul == n.upLeft
      lr == n.lowRight
      h1 == setRect(h, subtree, "NE", <<lr[1] - width1 + 1, ul[2]>>,
                    <<lr[1], ul[2] + height1 - 1>>)
      h2 == setRect(h1, subtree, "NW", <<ul[1], ul[2]>>,
                    <<ul[1] + width1 - 1, ul[2] + height1 - 1>>)
      h3 == setRect(h2, subtree, "SE", <<lr[1] - width1 + 1, ul[2] + height1>>,
                    <<lr[1], lr[2]>>)
  IN setRect(h3, subtree, "SW", <<ul[1], ul[2] + height1>>,
             <<ul[1] + width1 - 1, lr[2]>>)

positionNormal(h, subtree, width1, height1) ==
  LET n == h[subtree]
      ul == n.upLeft
      lr == n.lowRight
      h1 == setRect(h, subtree, "NE", <<lr[1] - width1 + 1, ul[2]>>,
                    <<lr[1], ul[2] + height1 - 1>>)
      h2 == setRect(h1, subtree, "NW", <<ul[1], ul[2]>>,
                    <<lr[1] - width1, ul[2] + height1 - 1>>)
      h3 == setRect(h2, subtree, "SE", <<lr[1] - width1 + 1, ul[2] + height1>>,
                    <<lr[1], lr[2]>>)
  IN setRect(h3, subtree, "SW", <<ul[1], ul[2] + height1>>,
             <<lr[1] - width1, lr[2]>>)

\* a faulty variant: only the northern pair is swapped
swapNorthOnly(h, subtree) ==
  [h EXCEPT ![subtree].NW = h[subtree].NE, ![subtree].NE = h[subtree].NW]

\* std::swap(subtree->NW, subtree->NE); std::swap(subtree->SW, subtree->SE)
swapEastWest(h, subtree) ==
  [h EXCEPT ![subtree].NW = h[subtree].NE, ![subtree].NE = h[subtree].NW,
            ![subtree].SW = h[subtree].SE, ![subtree].SE = h[subtree].SW]

RECURSIVE FlipNode(_, _)
FlipNode(h, subtree) ==
  IF subtree = NULL \/ isLeaf(h[subtree]) THEN h
  ELSE
    LET n == h[subtree]
        width1 == IF n.NW = NULL /\ n.SW = NULL THEN widthOf(n) - widthOf(h[n.NE])
                  ELSE IF n.NW = NULL /\ n.NE = NULL THEN widthOf(h[n.SW])
                  ELSE widthOf(h[n.NW])
        height1 == IF n.NW = NULL /\ n.SW = NULL THEN heightOf(h[n.NE])
                   ELSE IF n.NW = NULL /\ n.NE = NULL THEN heightOf(n) - heightOf(h[n.SW])
                   ELSE heightOf(h[n.NW])
        h0 == positionNormal(swapEastWest(h, subtree), subtree, width1, height1)
        h1 == FlipNode(h0, h0[subtree].NW)
        h2 == FlipNode(h1, h1[subtree].NE)
        h3 == FlipNode(h2, h2[subtree].SW)
    IN FlipNode(h3, h3[subtree].SE)

\* QTree::FlipHorizontal: the heap and the object after the call
FlipHorizontal(h, t) == [heap |-> FlipNode(h, t.root), tree |-> t]

----------------------------------------------------------------------------
\* RotateCCW

\* a faulty variant: the old NW and NE children trade their places
coordinateHelperSwapped(h, subtree, width1, width2, height1) ==
  LET n == h[subtree]
      ul == n.upLeft
      lr == n.lowRight
      h1 == setRect(h, subtree, "NE", <<ul[1], ul[2] + width2>>,
                    <<ul[1] + height1 - 1, lr[2]>>)
      h2 == setRect(h1, subtree, "NW", <<ul[1], ul[2]>>,
                    <<ul[1] + height1 - 1, ul[2] + width2 - 1>>)
      h3 == setRect(h2, subtree, "SW", <<ul[1] + height1, ul[2] + width2>>,
                    <<lr[1], lr[2]>>)
  IN setRect(h3, subtree, "SE", <<ul[1] + height1, ul[2]>>,
             <<lr[1], ul[2] + width2 - 1>>)

\* a faulty variant: the eastern children's lower edge is one row too low
coordinateHelperOffByOne(h, subtree, width1, width2, height1) ==
  LET n == h[subtree]
      ul == n.upLeft
      lr == n.lowRight
      h1 == setRect(h, subtree, "NW", <<ul[1], ul[2] + width2>>,
                    <<ul[1] + height1 - 1, lr[2]>>)
      h2 == setRect(h1, subtree, "NE", <<ul[1], ul[2]>>,
                    <<ul[1] + height1 - 1, ul[2] + width2>>)
      h3 == setRect(h2, subtree, "SW", <<ul[1] + height1, ul[2] + width2>>,
                    <<lr[1], lr[2]>>)
  IN setRect(h3, subtree, "SE", <<ul[1] + height1, ul[2]>>,
             <<lr[1], ul[2] + width2>>)

coordinateHelper(h, subtree, width1, width2, height1) ==
  LET n == h[subtree]
      ul == n.upLeft
      lr == n.lowRight
      h1 == setRect(h, subtree, "NW", <<ul[1], ul[2] + width2>>,
                    <<ul[1] + height1 - 1, lr[2]>>)
      h2 == setRect(h1, subtree, "NE", <<ul[1], ul[2]>>,
                    <<ul[1] + height1 - 1, ul[2] + width2 - 1>>)
      h3 == setRect(h2, subtree, "SW", <<ul[1] + height1, ul[2] + width2>>,
                    <<lr[1], lr[2]>>)
  IN setRect(h3, subtree, "SE", <<ul[1] + height1, ul[2]>>,
             <<lr[1], ul[2] + width2 - 1>>)

\* temp = SE; SE = SW; SW = NW; NW = NE; NE = temp
cycleChildren(h, subtree) ==
  [h EXCEPT ![subtree].SE = h[subtree].SW, ![subtree].SW = h[subtree].NW,
            ![subtree].NW = h[subtree].NE, ![subtree].NE = h[subtree].SE]

RECURSIVE RotateSubtree(_, _)
RotateSubtree(h, subtree) ==
  IF subtree = NULL \/ isLeaf(h[subtree]) THEN h
  ELSE
    LET n == h[subtree]
        \* the node's rectangle is already rotated; its children's are not
        b1 == n.NW = NULL /\ n.SW = NULL
        b2 == n.NW = NULL /\ n.NE = NULL
        b3 == n.NE = NULL /\ n.SE = NULL
        width1 == IF b1 THEN heightOf(n) - widthOf(h[n.NE])
                  ELSE IF b2 THEN widthOf(h[n.SW])
                  ELSE widthOf(h[n.NW])
        width2 == IF b1 THEN widthOf(h[n.NE])
                  ELSE IF b2 THEN widthOf(h[n.SE])
                  ELSE IF b3 THEN heightOf(n) - widthOf(h[n.NW])
                  ELSE widthOf(h[n.NE])
        height1 == IF b1 THEN heightOf(h[n.NE])
                   ELSE IF b2 THEN widthOf(n) - heightOf(h[n.SW])
                   ELSE heightOf(h[n.NW])
        h0 == cycleChildren(coordinateHelper(h, subtree, width1, width2, height1), subtree)
        h1 == RotateSubtree(h0, h0[subtree].NW)
        h2 == RotateSubtree(h1, h1[subtree].NE)
        h3 == RotateSubtree(h2, h2[subtree].SW)
    IN RotateSubtree(h3, h3[subtree].SE)

\* QTree::RotateCCW: the heap and the object after the call
RotateCCW(h, t) ==
  LET lr == h[t.root].lowRight
      h0 == [h EXCEPT ![t.root].lowRight = <<lr[2], lr[1]>>]
  IN [heap |-> RotateSubtree(h0, t.root),
      tree |-> [t EXCEPT !.height = t.width, !.width = t.height]]

----------------------------------------------------------------------------
\* Copy and operator=

\* CopyNode returns the heap, the next free address and the pointer to the copy.
RECURSIVE CopyNode(_, _, _)
CopyNode(h, nx, other) ==
  IF other = NULL THEN [heap |-> h, next |-> nx, ptr |-> NULL]
  ELSE
    LET subtree == nx
        o == h[other]
        h0 == New(h, subtree, Node(o.upLeft, o.lowRight, o.avg))
        nw == CopyNode(h0, nx + 1, o.NW)
        ne == CopyNode([nw.heap EXCEPT ![subtree].NW = nw.ptr], nw.next, o.NE)
        sw == CopyNode([ne.heap EXCEPT ![subtree].NE = ne.ptr], ne.next, o.SW)
        se == CopyNode([sw.heap EXCEPT ![subtree].SW = sw.ptr], sw.next, o.SE)
    IN [heap |-> [se.heap EXCEPT ![subtree].SE = se.ptr], next |-> se.next, ptr |-> subtree]

\* QTree::Copy(other): height, width and root of this are overwritten
Copy(h, nx, other) ==
  LET c == CopyNode(h, nx, other.root)
  IN [heap |-> c.heap, next |-> c.next,
      tree |-> [root |-> c.ptr, width |-> other.width, height |-> other.height]]

\* QTree::operator=(rhs): Copy(rhs); return *this
Assignment(h, nx, rhs) == Copy(h, nx, rhs)

----------------------------------------------------------------------------
\* The state machine

\* The driver constructs tree "a" from img and transforms it.
Init ==
  /\ img \in Images
  /\ LET c == Construct(EmptyHeap, 1, img)
     IN /\ heap = c.heap
        /\ next = c.next
        /\ trees = [t \in {"a"} |-> c.tree]
  /\ pruned = [t \in {"a"} |-> FALSE]
  /\ last = <<"build", "a">>
  /\ assigns = 0

PruneStep ==
  \E tolerance \in Tolerances :
    LET r == Prune(heap, trees["a"], tolerance)
    IN /\ heap' = r.heap
       /\ trees' = [trees EXCEPT !["a"] = r.tree]
       /\ pruned' = [pruned EXCEPT !["a"] = TRUE]
       /\ last' = <<"prune", "a">>
       /\ UNCHANGED <<img, next, assigns>>

FlipHorizontalStep ==
  LET r == FlipHorizontal(heap, trees["a"])
  IN /\ heap' = r.heap
     /\ trees' = [trees EXCEPT !["a"] = r.tree]
     /\ last' = <<"flip", "a">>
     /\ UNCHANGED <<img, next, pruned, assigns>>

RotateCCWStep ==
  LET r == RotateCCW(heap, trees["a"])
  IN /\ heap' = r.heap
     /\ trees' = [trees EXCEPT !["a"] = r.tree]
     /\ last' = <<"rotate", "a">>
     /\ UNCHANGED <<img, next, pruned, assigns>>

Next == PruneStep \/ FlipHorizontalStep \/ RotateCCWStep

Spec == Init /\ [][Next]_vars

\* The driver constructs trees "a" and "b" from img, transforms "a" and
\* assigns one tree to another (or to itself).
InitAssign ==
  /\ img \in ImagesUpTo(MaxCopyArea)
  /\ LET ca == Construct(EmptyHeap, 1, img)
         cb == Construct(ca.heap, ca.next, img)
     IN /\ heap = cb.heap
        /\ next = cb.next
        /\ trees = [t \in {"a", "b"} |-> IF t = "a" THEN ca.tree ELSE cb.tree]
  /\ pruned = [t \in {"a", "b"} |-> FALSE]
  /\ last = <<"build", "b">>
  /\ assigns = 0

\* lhs = rhs
AssignStep ==
  \E lhs \in DOMAIN trees, rhs \in DOMAIN trees :
    /\ assigns < MaxAssign
    /\ LET r == Assignment(heap, next, trees[rhs])
       IN /\ heap' = r.heap
          /\ next' = r.next
          /\ trees' = [trees EXCEPT ![lhs] = r.tree]
    /\ pruned' = [pruned EXCEPT ![lhs] = pruned[rhs]]
    /\ last' = <<"assign", lhs>>
    /\ assigns' = assigns + 1
    /\ UNCHANGED img

NextAssign == PruneStep \/ FlipHorizontalStep \/ RotateCCWStep \/ AssignStep

SpecAssign == InitAssign /\ [][NextAssign]_vars

----------------------------------------------------------------------------
\* Vocabulary of the properties

\* the tree the driver transforms
A == trees["a"]

\* the addresses of the nodes of the subtree rooted at p
RECURSIVE Reach(_, _)
Reach(h, p) ==
  IF p = NULL THEN {}
  ELSE {p} \cup Reach(h, h[p].NW) \cup Reach(h, h[p].NE)
           \cup Reach(h, h[p].SW) \cup Reach(h, h[p].SE)

Leaves(h, p) == { q \in Reach(h, p) : isLeaf(h[q]) }

\* the pixels of a node's rectangle
Cells(n) == (n.upLeft[1] .. n.lowRight[1]) \X (n.upLeft[2] .. n.lowRight[2])

Corners == {"NW", "NE", "SW", "SE"}
Kids(n) == { X \in Corners : n[X] # NULL }

IsTiling(h, t) ==
  /\ \A p \in Leaves(h, t.root), q \in Leaves(h, t.root) :
       p # q => Cells(h[p]) \cap Cells(h[q]) = {}
  /\ UNION { Cells(h[p]) : p \in Leaves(h, t.root) } = Rect(t.width, t.height)

\* Render(1) of the tree the driver transforms
Render1 == Render(heap, A, 1)

\* C1: in every state the leaf rectangles of the tree are pairwise disjoint
\* and their union is exactly [0,width-1] x [0,height-1] for the stored
\* width and height.
C1_Tiling == IsTiling(heap, A)

\* a rotation has acted on a pruned tree that has a collapsed subtree and an
\* internal node with only southern children
C1_Witness ==
  /\ last[1] = "rotate"
  /\ pruned["a"]
  /\ A.width = 3 /\ A.height = 2
  /\ Cardinality(Leaves(heap, A.root)) > 1
  /\ \E p \in Leaves(heap, A.root) : areaOf(heap[p]) > 1
  /\ \E p \in Reach(heap, A.root) : Kids(heap[p]) = {"SW", "SE"}

\* C2: for every scale k > 1, Render(k) is (width*k) x (height*k) and its
\* pixel (X, Y) has the colour of pixel (X div k, Y div k) of Render(1).
C2_RenderScale ==
  \A k \in 2 .. MaxScale :
    LET big == Render(heap, A, k)
    IN /\ big.width = A.width * k
       /\ big.height = A.height * k
       /\ LET one == Render1.px
          IN \A p \in DOMAIN big.px : big.px[p] = one[<<p[1] \div k, p[2] \div k>>]

\* C3: in every reachable state, a FlipHorizontal call leaves width, height
\* and the root rectangle unchanged, and pixel (x, y) of Render(1) after the
\* call is pixel (W-1-x, y) of Render(1) before it.
C3_FlipMirror ==
  LET r == FlipHorizontal(heap, A)
      before == Render1.px
      after == Render(r.heap, r.tree, 1).px
  IN /\ r.tree.width = A.width /\ r.tree.height = A.height
     /\ r.heap[r.tree.root].upLeft = heap[A.root].upLeft
     /\ r.heap[r.tree.root].lowRight = heap[A.root].lowRight
     /\ DOMAIN after = Rect(A.width, A.height)
     /\ \A p \in Rect(A.width, A.height) :
          after[p] = before[<<A.width - 1 - p[1], p[2]>>]

\* a flip has acted on a pruned, rotated tree whose picture is not symmetric
C3_Witness ==
  /\ last[1] = "flip"
  /\ pruned["a"]
  /\ A.width = 2 /\ A.height = 3
  /\ LET now == Render1.px
     IN \E p \in Rect(A.width, A.height) : now[p] # now[<<A.width - 1 - p[1], p[2]>>]
  /\ \E p \in Reach(heap, A.root) : Kids(heap[p]) = {"NE", "SE"}

\* C4: in every reachable state, a RotateCCW call swaps width and height,
\* leaves the root rectangle [0,H-1] x [0,W-1], and pixel (x, y) of Render(1)
\* after the call is pixel (W-1-y, x) of Render(1) before it.
C4_RotateCCW ==
  LET r == RotateCCW(heap, A)
      before == Render1.px
      after == Render(r.heap, r.tree, 1).px
  IN /\ r.tree.width = A.height /\ r.tree.height = A.width
     /\ r.heap[r.tree.root].upLeft = <<0, 0>>
     /\ r.heap[r.tree.root].lowRight = <<A.height - 1, A.width - 1>>
     /\ DOMAIN after = Rect(A.height, A.width)
     /\ \A p \in Rect(A.height, A.width) :
          after[p] = before[<<A.width - 1 - p[2], p[1]>>]

\* a rotation has acted on a pruned 2x3 tree and the picture is not uniform
C4_Witness ==
  /\ last[1] = "rotate"
  /\ pruned["a"]
  /\ A.width = 3 /\ A.height = 2
  /\ LET now == Render1.px
     IN \E p \in Rect(A.width, A.height) : now[p] # now[<<0, 0>>]
  /\ \E p \in Leaves(heap, A.root) : areaOf(heap[p]) > 1

----------------------------------------------------------------------------
\* Prune

\* every leaf of the subtree of n is within tol of n's average
Qualifies(h, n, tol) ==
  \A l \in Leaves(h, n) : distanceSq(h[l].avg, h[n].avg) <= tol * tol

\* the proper ancestors of p in the tree rooted at root
ProperAncestors(h, root, p) == { n \in Reach(h, root) : n # p /\ p \in Reach(h, n) }

\* h2 is what greedy top-down pruning of the tree at root makes of h
PrunedGreedily(h, h2, root, tol) ==
  /\ \A p \in Reach(h, root) :
       (p \in Reach(h2, root)) <=>
          (\A n \in ProperAncestors(h, root, p) : ~Qualifies(h, n, tol))
  /\ DOMAIN h2 \cap Reach(h, root) = Reach(h2, root)
  /\ \A p \in Reach(h2, root) :
       /\ (~isLeaf(h[p]) /\ Qualifies(h, p, tol)) =>
             (isLeaf(h2[p]) /\ Reach(h, p) \cap DOMAIN h2 = {p})
       /\ h2[p].avg = h[p].avg
       /\ h2[p].upLeft = h[p].upLeft
       /\ h2[p].lowRight = h[p].lowRight

\* C5: in every reachable state of a tree that was never pruned, and for
\* every tolerance, Prune keeps a node iff no proper ancestor of it had all
\* its leaves within the tolerance of its own average; a kept internal node
\* that had is a leaf whose descendants are all deleted; no kept node's
\* average or rectangle changes.
C5_PruneGreedy ==
  ~pruned["a"] =>
     \A tol \in Tolerances :
        PrunedGreedily(heap, Prune(heap, A, tol).heap, A.root, tol)

\* a prune has collapsed a subtree below the root and has left another
\* internal node as it was
C5_Witness ==
  /\ last[1] = "prune"
  /\ ~isLeaf(heap[A.root])
  /\ \E p \in Leaves(heap, A.root) : areaOf(heap[p]) > 1
  /\ \E p \in Reach(heap, A.root) : p # A.root /\ ~isLeaf(heap[p])

----------------------------------------------------------------------------
\* Averages

\* the area-weighted mean of channel c over the children that are there
WeightedMean(h, n, c) ==
  LET Num(X) == IF n[X] = NULL THEN 0 ELSE areaOf(h[n[X]]) * h[n[X]].avg[c]
      Den(X) == IF n[X] = NULL THEN 0 ELSE areaOf(h[n[X]])
  IN (Num("NW") + Num("NE") + Num("SW") + Num("SE"))
       \div (Den("NW") + Den("NE") + Den("SW") + Den("SE"))

\* C7: in every reachable state every internal node's average is, per
\* channel, the floor of the area-weighted mean of its direct children's
\* averages and lies in 0..255; after construction every leaf is 1x1 and
\* carries the source pixel's colour; the documented 2x2 image gives the
\* root average (127,127,63).
C7_WeightedAverage ==
  /\ \A p \in Reach(heap, A.root) :
       ~isLeaf(heap[p]) =>
          \A c \in {"r", "g", "b"} :
             /\ heap[p].avg[c] = WeightedMean(heap, heap[p], c)
             /\ heap[p].avg[c] \in 0 .. 255
  /\ last[1] = "build" =>
       \A p \in Leaves(heap, A.root) :
          /\ areaOf(heap[p]) = 1
          /\ heap[p].avg = img.px[heap[p].upLeft]
  /\ (last[1] = "build" /\ img = ExampleImg) => heap[A.root].avg = RGB(127, 127, 63)

\* the documented image, pruned below the root and rotated: the children
\* have different areas or different averages
C7_Witness ==
  /\ last[1] = "rotate"
  /\ pruned["a"]
  /\ A.width = 3 /\ A.height = 3
  /\ \E p \in Reach(heap, A.root) : p # A.root /\ ~isLeaf(heap[p])
  /\ \E p \in Leaves(heap, A.root) : areaOf(heap[p]) > 1

\* the documented 2x2 image right after construction
C7_WitnessExample ==
  /\ last[1] = "build"
  /\ img = ExampleImg
  /\ heap[A.root].avg = RGB(127, 127, 63)

----------------------------------------------------------------------------
\* Commutation

\* the trees r1 and r2 have the same stored dimensions and the same Render(1)
SameRender(r1, r2) ==
  /\ r1.tree.width = r2.tree.width
  /\ r1.tree.height = r2.tree.height
  /\ Render(r1.heap, r1.tree, 1) = Render(r2.heap, r2.tree, 1)

PruneFlipCommute(h, t, tol) ==
  LET p == Prune(h, t, tol)
      f == FlipHorizontal(h, t)
  IN SameRender(FlipHorizontal(p.heap, p.tree), Prune(f.heap, f.tree, tol))

PruneRotateCommute(h, t, tol) ==
  LET p == Prune(h, t, tol)
      r == RotateCCW(h, t)
  IN SameRender(RotateCCW(p.heap, p.tree), Prune(r.heap, r.tree, tol))

FlipRotateCommute(h, t) ==
  LET f == FlipHorizontal(h, t)
      r == RotateCCW(h, t)
  IN SameRender(RotateCCW(f.heap, f.tree), FlipHorizontal(r.heap, r.tree))

\* C8 as claimed: on a tree that was never pruned, any two of Prune(t),
\* FlipHorizontal and RotateCCW give the same dimensions and Render(1) in
\* either order.
C8_AllCommute ==
  ~pruned["a"] =>
     /\ \A tol \in Tolerances :
          PruneFlipCommute(heap, A, tol) /\ PruneRotateCommute(heap, A, tol)
     /\ FlipRotateCommute(heap, A)

\* C8 amended: on a tree that was never pruned, Prune(t) followed by
\* FlipHorizontal gives the same dimensions and Render(1) as FlipHorizontal
\* followed by Prune(t), and likewise Prune(t) and RotateCCW.
C8_PruneCommutes ==
  ~pruned["a"] =>
     \A tol \in Tolerances :
        PruneFlipCommute(heap, A, tol) /\ PruneRotateCommute(heap, A, tol)

\* a flipped, never pruned 3x2 tree whose picture is not symmetric and in
\* which some tolerance collapses a subtree below the root
C8_Witness ==
  /\ ~pruned["a"]
  /\ last[1] = "flip"
  /\ A.width = 3 /\ A.height = 2
  /\ LET now == Render1.px
     IN \E p \in Rect(A.width, A.height) : now[p] # now[<<A.width - 1 - p[1], p[2]>>]
  /\ \E tol \in Tolerances :
       LET h2 == Prune(heap, A, tol).heap
       IN h2 # heap /\ ~isLeaf(h2[A.root])

----------------------------------------------------------------------------
\* Shape of the tree

\* the rectangles of the children of n are non-empty and partition n's
PartitionsParent(h, n) ==
  /\ \A X \in Kids(n) : widthOf(h[n[X]]) >= 1 /\ heightOf(h[n[X]]) >= 1
  /\ \A X \in Kids(n), Y \in Kids(n) :
       X # Y => Cells(h[n[X]]) \cap Cells(h[n[Y]]) = {}
  /\ UNION { Cells(h[n[X]]) : X \in Kids(n) } = Cells(n)

\* C9: right after construction a node is a leaf iff it is 1x1; otherwise its
\* NW child is ceil(w/2) x ceil(h/2) at the node's upper-left corner, its
\* children are NW and SW if w = 1, NW and NE if h = 1, all four otherwise,
\* and their non-empty rectangles partition the node's rectangle.
C9_BuildSplit ==
  last[1] = "build" =>
     \A p \in Reach(heap, A.root) :
        LET n == heap[p]
            w == widthOf(n)
            h == heightOf(n)
        IN /\ w >= 1 /\ h >= 1
           /\ isLeaf(n) <=> (w = 1 /\ h = 1)
           /\ ~isLeaf(n) =>
                /\ n.NW # NULL
                /\ heap[n.NW].upLeft = n.upLeft
                /\ 2 * widthOf(heap[n.NW]) \in {w, w + 1}
                /\ 2 * heightOf(heap[n.NW]) \in {h, h + 1}
                /\ w = 1 => Kids(n) = {"NW", "SW"}
                /\ h = 1 => Kids(n) = {"NW", "NE"}
                /\ (w > 1 /\ h > 1) => Kids(n) = Corners
                /\ PartitionsParent(heap, n)

\* a freshly built 3x3 tree: odd splits, four-way, two-way and leaf nodes
C9_Witness ==
  /\ last[1] = "build"
  /\ A.width = 3 /\ A.height = 3
  /\ \E p \in Reach(heap, A.root) : Kids(heap[p]) = {"NW", "SW"}
  /\ \E p \in Reach(heap, A.root) : Kids(heap[p]) = {"NW", "NE"}
  /\ Kids(heap[A.root]) = Corners

\* child X of n is non-empty, inside n, and in n's corner named X
InCorner(h, n, X) ==
  LET c == h[n[X]]
  IN /\ c.upLeft[1] <= c.lowRight[1] /\ c.upLeft[2] <= c.lowRight[2]
     /\ Cells(c) \subseteq Cells(n)
     /\ X = "NW" => c.upLeft = n.upLeft
     /\ X = "NE" => <<c.lowRight[1], c.upLeft[2]>> = <<n.lowRight[1], n.upLeft[2]>>
     /\ X = "SW" => <<c.upLeft[1], c.lowRight[2]>> = <<n.upLeft[1], n.lowRight[2]>>
     /\ X = "SE" => c.lowRight = n.lowRight

\* C10: in every reachable state every child of every internal node is
\* non-empty, lies inside its parent and touches the parent's corner of its
\* name, and the children present are all four, {NW,NE}, {NW,SW}, {NE,SE}
\* or {SW,SE}.
C10_CornerNames ==
  \A p \in Reach(heap, A.root) :
     ~isLeaf(heap[p]) =>
        /\ \A X \in Kids(heap[p]) : InCorner(heap, heap[p], X)
        /\ Kids(heap[p]) \in {Corners, {"NW", "NE"}, {"NW", "SW"},
                              {"NE", "SE"}, {"SW", "SE"}}

\* after a flip of a rotated tree: nodes with only eastern children and
\* nodes with only southern children, next to a collapsed subtree
C10_Witness ==
  /\ last[1] = "flip"
  /\ pruned["a"]
  /\ \E p \in Reach(heap, A.root) : Kids(heap[p]) = {"NE", "SE"}
  /\ \E p \in Reach(heap, A.root) : Kids(heap[p]) = {"SW", "SE"}
  /\ \E p \in Leaves(heap, A.root) : areaOf(heap[p]) > 1

----------------------------------------------------------------------------
\* Ownership

\* the nodes owned by the live trees
Owned == UNION { Reach(heap, trees[t].root) : t \in DOMAIN trees }

\* C6: after a copy-assignment every allocated and not yet deleted node is
\* reachable from the root of a live tree, and the target shares no node
\* with any other tree.
C6_NoLeakOnAssign ==
  last[1] = "assign" =>
     /\ DOMAIN heap = Owned
     /\ \A t \in DOMAIN trees \ {last[2]} :
          Reach(heap, trees[t].root) \cap Reach(heap, trees[last[2]].root) = {}

=============================================================================
